---- MODULE Spec2Model ----
(***************************************************************************)
(* TrimURL: the in-memory shortcode registry (URLService in handlers.go)   *)
(* driven by concurrent callers.  Strings are sequences of one-character   *)
(* strings, so that prefixes, lengths and character classes are computed   *)
(* as the Go code computes them.  Time is counted in minutes.              *)
(***************************************************************************)
EXTENDS Integers, Sequences, FiniteSets, TLC

\* ---------------------------------------------------------------- bounds
NumProcs == 2
MaxCalls == 3
MaxTime == 61

Procs == 1..NumProcs
NoProc == 0

\* clock advances used by the environment (minutes)
TickSteps == {60, 61}

\* ------------------------------------------------------------ characters
Digits == {"0", "1", "2", "3", "4", "5", "6", "7", "8", "9"}
Lower == {"a", "b", "c", "d", "e", "f", "g", "h", "i", "j", "k", "l", "m",
          "n", "o", "p", "q", "r", "s", "t", "u", "v", "w", "x", "y", "z"}
Upper == {"A", "B", "C", "D", "E", "F", "G", "H", "I", "J", "K", "L", "M",
          "N", "O", "P", "Q", "R", "S", "T", "U", "V", "W", "X", "Y", "Z"}
\* ASCII control characters that occur in the inputs below
CtlChars == {"\t", "\n"}

HttpPrefix == <<"h", "t", "t", "p", ":", "/", "/">>
HttpsPrefix == <<"h", "t", "t", "p", "s", ":", "/", "/">>
LinkPrefix == <<"h", "t", "t", "p", ":", "/", "/", "l", "o", "c", "a", "l",
                "h", "o", "s", "t", ":", "3", "0", "0", "0", "/">>

\* strings.HasPrefix
HasPrefix(s, prefix) ==
    /\ Len(s) >= Len(prefix)
    /\ SubSeq(s, 1, Len(prefix)) = prefix

\* a character outside ASCII is written as its code point; these take two
\* bytes in the UTF-8 encoding that Go strings hold
TwoByteRunes == {"U+00E9"}

\* utf8.RuneLen for the characters used here
RuneLen(char) == IF char \in TwoByteRunes THEN 2 ELSE 1

RECURSIVE ByteLen(_)
\* len(s): the number of bytes of the string
ByteLen(s) == IF s = <<>> THEN 0 ELSE RuneLen(Head(s)) + ByteLen(Tail(s))

\* ------------------------------------------------------------ the inputs
EmptyString == <<>>
UrlExample == <<"e", "x", "a", "m", "p", "l", "e", ".", "c", "o", "m">>
UrlA == <<"h", "t", "t", "p", "s", ":", "/", "/", "a", ".", "c", "o", "m">>
UrlCtl == <<"a", "\t", "b">>

CodeAbcd == <<"a", "b", "c", "d">>
CodeAbc == <<"a", "b", "c">>
CodeHash == <<"a", "b", "c", "#", "1", "2", "3">>
\* two characters, four bytes
CodeAccents == <<"U+00E9", "U+00E9">>
\* 21 characters
CodeLong == <<"a", "b", "c", "d", "e", "f", "g", "h", "i", "j", "#",
              "0", "1", "2", "3", "4", "5", "6", "7", "8", "9">>
\* outcomes of rand.Read(bytes) for the 4 random bytes
RandBytes == {<<171, 205, 0, 1>>}

SourceDirect == <<"d", "i", "r", "e", "c", "t">>
CodeHealth == <<"h", "e", "a", "l", "t", "h">>
CodeShorturls == <<"s", "h", "o", "r", "t", "u", "r", "l", "s">>
ApiPaths == {CodeShorturls, CodeHealth}
SourceRef == <<"r", "e", "f">>
LocationUnknown == <<"u", "n", "k", "n", "o", "w", "n">>

Request(u, v, c) == [URL |-> u, Validity |-> v, ShortCode |-> c]

\* the create requests callers send; 153722868 is the least validity whose
\* count of nanoseconds does not fit an int64
Requests ==
    {Request(UrlExample, 60, CodeAbcd), Request(UrlA, 0, CodeAbcd),
     Request(UrlExample, 153722868, EmptyString),
     Request(EmptyString, 60, CodeAbcd), Request(UrlCtl, 0, EmptyString),
     Request(UrlExample, 60, CodeAbc), Request(UrlA, -5, CodeHash),
     Request(UrlA, 0, CodeAccents), Request(UrlExample, 60, CodeLong)}

\* ------------------------------------------------------- pure functions
\* one hexadecimal digit, lower case (encoding/hex)
HexDigit(n) ==
    <<"0", "1", "2", "3", "4", "5", "6", "7",
      "8", "9", "a", "b", "c", "d", "e", "f">>[n + 1]

RECURSIVE EncodeToString(_)
\* hex.EncodeToString: two digits per byte, high nibble first
EncodeToString(bytes) ==
    IF bytes = <<>> THEN <<>>
    ELSE <<HexDigit(Head(bytes) \div 16), HexDigit(Head(bytes) % 16)>>
         \o EncodeToString(Tail(bytes))

\* hex.EncodeToString(bytes)[:8]
NewShortCode(bytes) == SubSeq(EncodeToString(bytes), 1, 8)

\* errors are the message parts of fmt.Errorf, Nil is the nil error
Nil == <<>>
ErrEmptyURL == <<"URL cannot be empty">>
ErrURLFormat == <<"invalid URL format">>
ErrInvalidURL(err) == <<"invalid URL: ">> \o err
ErrLength == <<"shortcode must be 4-20 characters">>
ErrAlnum == <<"shortcode must be alphanumeric">>
ErrInvalidShortCode(err) == <<"invalid shortcode: ">> \o err
ErrExists == <<"shortcode already exists">>
ErrNotFound == <<"shortcode not found">>
ErrExpired == <<"shortcode expired">>

\* Logger.Log returns nil, or the error of the POST (client.Do failed, or the
\* server answered with a status >= 400)
ErrLog == <<"server error">>
LogOutcomes == {Nil, ErrLog}

\* a Log call whose error is handed on to the caller
AfterLogChecked(logErr, err) == IF logErr # Nil THEN logErr ELSE err

\* s.logger.Log(...) as a statement: the error it returns is dropped, the
\* operation goes on with its own error
AfterLog(logErr, err) == err

\* "Add protocol if missing": the local rawURL after the prefix test
AddProtocol(rawURL) ==
    IF ~HasPrefix(rawURL, HttpPrefix) /\ ~HasPrefix(rawURL, HttpsPrefix)
    THEN HttpsPrefix \o rawURL
    ELSE rawURL

\* url.Parse reports an error for a string holding an ASCII control
\* character; the other URLs of Requests parse.
ParseFails(s) == \E i \in 1..Len(s) : s[i] \in CtlChars

\* URLService.validateURL: returns only the error
validateURL(rawURL) ==
    IF rawURL = EmptyString THEN ErrEmptyURL
    ELSE IF ParseFails(AddProtocol(rawURL)) THEN ErrURLFormat
    ELSE Nil

IsAlnum(char) == char \in Lower \cup Upper \cup Digits

\* URLService.validateShortCode
validateShortCode(code) ==
    IF ByteLen(code) < 4 \/ ByteLen(code) > 20 THEN ErrLength
    ELSE IF \E i \in 1..Len(code) : ~IsAlnum(code[i]) THEN ErrAlnum
    ELSE Nil

\* "Set default validity to 30 minutes"
DefaultValidity(v) == IF v <= 0 THEN 30 ELSE v

\* ---- int64 arithmetic: a value is its 8 bytes, least significant first,
\* in two's complement (time.Duration is an int64 count of nanoseconds)
\* time.Duration(validity) for 0 <= validity < 2^31
Duration(n) ==
    <<n % 256, (n \div 256) % 256, (n \div 65536) % 256,
      (n \div 16777216) % 256, 0, 0, 0, 0>>

\* time.Minute = 60 * Second, Second = 1000 * Millisecond,
\* Millisecond = 1000 * Microsecond, Microsecond = 1000 * Nanosecond
Minute == <<60, 1000, 1000, 1000>>

RECURSIVE MulSmall(_, _, _)
\* x * n on 64 bits: the carry out of the top byte is lost
MulSmall(x, n, carry) ==
    IF x = <<>> THEN <<>>
    ELSE <<(Head(x) * n + carry) % 256>>
         \o MulSmall(Tail(x), n, (Head(x) * n + carry) \div 256)

RECURSIVE Mul(_, _)
\* x * (factors[1] * factors[2] * ...) on 64 bits
Mul(x, factors) ==
    IF factors = <<>> THEN x
    ELSE Mul(MulSmall(x, Head(factors), 0), Tail(factors))

Reverse(x) == [i \in 1..Len(x) |-> x[Len(x) + 1 - i]]

RECURSIVE DivHigh(_, _, _)
\* the quotient of x by n, both x and the quotient most significant byte
\* first
DivHigh(x, n, rem) ==
    IF x = <<>> THEN <<>>
    ELSE <<(rem * 256 + Head(x)) \div n>>
         \o DivHigh(Tail(x), n, (rem * 256 + Head(x)) % n)

\* x \div n for 0 <= x < 2^63
DivSmall(x, n) == Reverse(DivHigh(Reverse(x), n, 0))

RECURSIVE Div(_, _)
\* x \div (factors[1] * factors[2] * ...) for 0 <= x < 2^63
Div(x, factors) ==
    IF factors = <<>> THEN x
    ELSE Div(DivSmall(x, Head(factors)), Tail(factors))

RECURSIVE ToInt(_)
\* the number a non-negative value below 2^31 stands for
ToInt(x) == IF x = <<>> THEN 0 ELSE Head(x) + 256 * ToInt(Tail(x))

\* the sign bit
IsNegative(x) == x[8] >= 128

\* -x - 1
Not(x) == [i \in 1..Len(x) |-> 255 - x[i]]

\* a Duration in whole minutes, rounded down: a time that is a Duration
\* away from a whole minute compares with whole minutes as its floor does
Minutes(d) ==
    IF IsNegative(d) THEN 0 - ToInt(Div(Not(d), Minute)) - 1
    ELSE ToInt(Div(d, Minute))

\* the validities CreateShortURL computes for Requests
Validities == {DefaultValidity(r.Validity) : r \in Requests}

\* time.Duration(validity) * time.Minute in minutes, for each of Validities
ValidityMinutes == [v \in Validities |-> Minutes(Mul(Duration(v), Minute))]

\* now.Add(time.Duration(validity) * time.Minute), in minutes
AddMinutes(t, validity) == t + ValidityMinutes[validity]

\* a comparison that also counts the instant of expiry as past it
AfterOrEqual(t, u) == t >= u

\* time.Now().After(shortURL.ExpiresAt)
After(t, u) == t > u

\* ----------------------------------------------------------------- state
VARIABLES
    urls,           \* URLService.urls: shortcode -> ShortURL
    readers,        \* callers holding URLService.mutex for reading
    writer,         \* caller holding URLService.mutex for writing, or NoProc
    clock,          \* what time.Now() returns
    calls,          \* number of calls made so far
    pc,             \* position of each caller in the operation it runs
    req,            \* CreateShortURL: the request
    validity,       \* CreateShortURL: local validity
    shortCode,      \* local shortCode (argument or generated)
    shortURL,       \* local shortURL (the record built or looked up)
    click,          \* RecordClick: local click
    existedAtCall,  \* history: the shortcode argument of the running call was
                    \* in urls when the call was made
    ret,            \* the last return: operation, shortcode argument,
                    \* existedAtCall of the call, error and value
    sink,           \* the server Logger.Log posts to: "up" (every POST is
                    \* answered with a status < 400) or "down"
    logged,         \* the error the last Log call returned
    arrays,         \* the memory of the ClickHistory slices: the backing
                    \* arrays in the order of their allocation
    effected,       \* history: per code, the clicks of the recordClick calls
                    \* that returned nil, in the order they took effect
    wins,           \* history: per code, the number of create calls that
                    \* returned nil with that code
    request,        \* URLHandler.RedirectURL: the locals of the handler each
                    \* caller runs (shortCode, source, originalURL), or
                    \* NoRequest for a caller that calls the service itself
    answer          \* the last HTTP answer RedirectURL wrote: status,
                    \* Location header and the shortcode of the request

vars == <<urls, readers, writer, clock, calls, pc, req, validity, shortCode,
          shortURL, click, existedAtCall, ret, sink, logged, arrays,
          effected, wins, request, answer>>

\* a slice is the header Go keeps: the backing array (its index in arrays),
\* the length and the capacity
NoArray == 0

\* []Click{} and the nil slice: no backing array
EmptyClicks == [Array |-> NoArray, Len |-> 0, Cap |-> 0]

ZeroRequest == [URL |-> EmptyString, Validity |-> 0, ShortCode |-> EmptyString]
ZeroShortURL == [ShortCode |-> EmptyString, OriginalURL |-> EmptyString,
                 CreatedAt |-> 0, ExpiresAt |-> 0,
                 ClickCount |-> 0, ClickHistory |-> EmptyClicks]
ZeroClick == [Timestamp |-> 0, Source |-> EmptyString, Location |-> EmptyString]
NoValue == <<>>
NoReturn == [op |-> "none", code |-> EmptyString, existed |-> FALSE,
             err |-> Nil, val |-> NoValue]
NoRequest == <<>>
NoAnswer == [status |-> 0, location |-> EmptyString, code |-> EmptyString]

\* what a Log call can return with the sink as it is
Answers == IF sink = "up" THEN {Nil} ELSE LogOutcomes \ {Nil}

\* NewURLService: an empty map, an unlocked mutex
Created ==
    /\ urls = <<>>
    /\ readers = {}
    /\ writer = NoProc
    /\ clock = 0
    /\ calls = 0
    /\ pc = [p \in Procs |-> "idle"]
    /\ req = [p \in Procs |-> ZeroRequest]
    /\ validity = [p \in Procs |-> 0]
    /\ shortCode = [p \in Procs |-> EmptyString]
    /\ shortURL = [p \in Procs |-> ZeroShortURL]
    /\ click = [p \in Procs |-> ZeroClick]
    /\ existedAtCall = [p \in Procs |-> FALSE]
    /\ ret = NoReturn
    /\ logged = Nil
    /\ arrays = <<>>
    /\ effected = <<>>
    /\ wins = <<>>
    /\ request = [p \in Procs |-> NoRequest]
    /\ answer = NoAnswer

\* the service starts with the log server up
Init == Created /\ sink = "up"

\* the service starts with the log server down: every POST fails
LogInit == Created /\ sink = "down"

\* ------------------------------------------------------ sync.RWMutex
\* a read lock that does not wait for the writer
CanRLockAlways == TRUE

\* RLock succeeds when no writer holds the mutex
CanRLock == writer = NoProc

\* Lock succeeds when nobody holds the mutex
CanLock == writer = NoProc /\ readers = {}

\* ----------------------------------------------------- map operations
\* a lookup that never finds the code
shortCodeExistsNever(code) == FALSE

\* _, exists := s.urls[shortCode]
shortCodeExists(code) == code \in DOMAIN urls

\* s.urls[shortCode] = shortURL
MapStore(m, code, rec) ==
    [c \in DOMAIN m \cup {code} |-> IF c = code THEN rec ELSE m[c]]

\* the ShortURL literal of CreateShortURL
NewShortURL(code, originalURL, t, v) ==
    [ShortCode |-> code, OriginalURL |-> originalURL,
     CreatedAt |-> t, ExpiresAt |-> AddMinutes(t, v),
     ClickCount |-> 0, ClickHistory |-> EmptyClicks]

\* the CreateShortURLResponse literal; Expiry is the RFC3339 text of
\* ExpiresAt, which at minute granularity carries the whole value
NewResponse(rec) ==
    [ShortLink |-> LinkPrefix \o rec.ShortCode, Expiry |-> rec.ExpiresAt]

\* statistics that withhold the clicks of an expired record
NewStatsUnlessExpired(rec) ==
    [TotalClicks |-> IF clock > rec.ExpiresAt THEN 0 ELSE rec.ClickCount,
     CreatedAt |-> rec.CreatedAt, ExpiresAt |-> rec.ExpiresAt,
     Clicks |-> IF clock > rec.ExpiresAt THEN EmptyClicks
                ELSE rec.ClickHistory]

\* the ShortURLStats literal of GetStats; Clicks: shortURL.ClickHistory copies
\* the slice header, not the backing array
NewStats(rec) ==
    [TotalClicks |-> rec.ClickCount, CreatedAt |-> rec.CreatedAt,
     ExpiresAt |-> rec.ExpiresAt, Clicks |-> rec.ClickHistory]

\* a counter that stands still once the record has expired
IncClickCountUnlessExpired(rec) ==
    IF clock > rec.ExpiresAt THEN rec ELSE [rec EXCEPT !.ClickCount = @ + 1]

\* shortURL.ClickCount++
IncClickCount(rec) == [rec EXCEPT !.ClickCount = @ + 1]

\* the elements of slice s in memory mem
View(mem, s) == IF s.Len = 0 THEN <<>> ELSE SubSeq(mem[s.Array], 1, s.Len)

\* growslice for []Click (56-byte elements): the capacity append allocates
\* for a full slice of capacity cap
GrowCap(cap) == IF cap = 0 THEN 1 ELSE 2 * cap

\* the header append(s, c) returns: the same array while there is room,
\* a newly allocated one otherwise
AppendHeader(mem, s) ==
    IF s.Len < s.Cap THEN [s EXCEPT !.Len = @ + 1]
    ELSE [Array |-> Len(mem) + 1, Len |-> s.Len + 1, Cap |-> GrowCap(s.Cap)]

\* a history kept newest first: c goes in front and the elements move up
\* one cell, in place or in a new array
AppendCellsNewestFirst(mem, s, c) ==
    IF s.Len < s.Cap
    THEN [mem EXCEPT ![s.Array] =
            [i \in 1..s.Cap |-> IF i = 1 THEN c
                                ELSE IF i <= s.Len + 1 THEN @[i - 1]
                                ELSE @[i]]]
    ELSE Append(mem, [i \in 1..GrowCap(s.Cap) |->
                        IF i = 1 THEN c
                        ELSE IF i <= s.Len + 1 THEN mem[s.Array][i - 1]
                        ELSE ZeroClick])

\* the memory after append(s, c): c is written behind the last element, in
\* place or in a new array that starts as a copy
AppendCells(mem, s, c) ==
    IF s.Len < s.Cap THEN [mem EXCEPT ![s.Array][s.Len + 1] = c]
    ELSE Append(mem, [i \in 1..GrowCap(s.Cap) |->
                        IF i <= s.Len THEN mem[s.Array][i]
                        ELSE IF i = s.Len + 1 THEN c ELSE ZeroClick])

\* shortURL.ClickHistory = append(shortURL.ClickHistory, click)
AppendClick(rec, mem) == [rec EXCEPT !.ClickHistory = AppendHeader(mem, @)]

EffectedOf(code) == IF code \in DOMAIN effected THEN effected[code] ELSE <<>>

WinsOf(code) == IF code \in DOMAIN wins THEN wins[code] ELSE 0

\* a caller starts a call; idle callers are alike, the first of them takes it
StartCall(p) ==
    /\ pc[p] = "idle"
    /\ \A q \in Procs : q < p => pc[q] # "idle"
    /\ calls < MaxCalls
    /\ calls' = calls + 1

SetLocals(p, r, v, c, u, k, e) ==
    /\ req' = [req EXCEPT ![p] = r]
    /\ validity' = [validity EXCEPT ![p] = v]
    /\ shortCode' = [shortCode EXCEPT ![p] = c]
    /\ shortURL' = [shortURL EXCEPT ![p] = u]
    /\ click' = [click EXCEPT ![p] = k]
    /\ existedAtCall' = [existedAtCall EXCEPT ![p] = e]

\* source := r.Header.Get("Referer"); if source == "" { source = "direct" }
SourceOf(referer) == IF referer = EmptyString THEN SourceDirect ELSE referer

\* RedirectURL writes its answer and returns
Answer(p, status, location) ==
    /\ answer' = [status |-> status, location |-> location,
                  code |-> request[p].shortCode]
    /\ request' = [request EXCEPT ![p] = NoRequest]
    /\ pc' = [pc EXCEPT ![p] = "idle"]
    /\ SetLocals(p, ZeroRequest, 0, EmptyString, ZeroShortURL, ZeroClick,
                 FALSE)

\* RedirectURL calls RecordClick, up to the Lock call of RecordClick
CallRecordClick(p, originalURL) ==
    /\ request' = [request EXCEPT ![p].originalURL = originalURL]
    /\ SetLocals(p, ZeroRequest, 0, request[p].shortCode, ZeroShortURL,
                 [Timestamp |-> 0, Source |-> SourceOf(request[p].referer),
                  Location |-> LocationUnknown],
                 request[p].shortCode \in DOMAIN urls)
    /\ pc' = [pc EXCEPT ![p] = "r_lock"]
    /\ UNCHANGED answer

\* a handler that records the click whatever GetOriginalURL returned
AfterGetOriginalURLAlwaysClicks(p, err, val) ==
    CallRecordClick(p, IF err # Nil THEN EmptyString ELSE val)

\* RedirectURL after GetOriginalURL returned: 404 on an error, else the
\* source of the click and the call of RecordClick
AfterGetOriginalURL(p, err, val) ==
    IF err # Nil
    THEN Answer(p, 404, EmptyString)
    ELSE CallRecordClick(p, val)

\* RedirectURL after RecordClick returned: an error is logged only, the
\* answer is http.Redirect(w, r, originalURL, http.StatusMovedPermanently)
AfterRecordClick(p, err) == Answer(p, 301, request[p].originalURL)

\* the call returns: its locals are gone, the caller receives the result; a
\* caller inside RedirectURL goes on with the handler
Return(p, name, code, existed, err, val) ==
    /\ ret' = [op |-> name, code |-> code, existed |-> existed,
               err |-> err, val |-> val]
    /\ IF request[p] = NoRequest
       THEN /\ pc' = [pc EXCEPT ![p] = "idle"]
            /\ SetLocals(p, ZeroRequest, 0, EmptyString, ZeroShortURL,
                         ZeroClick, FALSE)
            /\ UNCHANGED <<request, answer>>
       ELSE IF name = "resolve"
       THEN AfterGetOriginalURL(p, err, val)
       ELSE AfterRecordClick(p, err)

Goto(p, label) ==
    /\ pc' = [pc EXCEPT ![p] = label]
    /\ UNCHANGED <<ret, request, answer>>

\* -------------------------------------------------- CreateShortURL
\* the call up to the first access of the map: URL and shortcode validation,
\* with the Log calls of lines 259-282
CreateShortURL(p, r) ==
    /\ StartCall(p)
    /\ \E l \in Answers :
          /\ logged' = l
          /\ IF validateURL(r.URL) # Nil
             THEN Return(p, "create", r.ShortCode, r.ShortCode \in DOMAIN urls,
                         AfterLog(l, ErrInvalidURL(validateURL(r.URL))),
                         NoValue)
             ELSE IF /\ r.ShortCode # EmptyString
                     /\ validateShortCode(r.ShortCode) # Nil
             THEN Return(p, "create", r.ShortCode, r.ShortCode \in DOMAIN urls,
                         AfterLog(l, ErrInvalidShortCode(
                                        validateShortCode(r.ShortCode))),
                         NoValue)
             ELSE /\ SetLocals(p, r, DefaultValidity(r.Validity), r.ShortCode,
                               ZeroShortURL, ZeroClick,
                               r.ShortCode \in DOMAIN urls)
                  /\ IF r.ShortCode = EmptyString
                     THEN Goto(p, "gen_rlock")
                     ELSE Goto(p, "chk_rlock")
    /\ UNCHANGED <<urls, readers, writer, clock, arrays, effected, wins,
                   sink>>

\* generateShortCode: draw 4 random bytes, then shortCodeExists takes RLock
GenerateRLock(p) ==
    /\ pc[p] = "gen_rlock"
    /\ CanRLock
    /\ \E bytes \in RandBytes :
          shortCode' = [shortCode EXCEPT ![p] = NewShortCode(bytes)]
    /\ readers' = readers \cup {p}
    /\ Goto(p, "gen_read")
    /\ UNCHANGED <<urls, writer, clock, calls, req, validity, shortURL, click,
                   existedAtCall, logged, arrays, effected, wins, sink>>

\* generateShortCode: shortCodeExists reads the map and releases; the loop
\* goes round on a collision, else the code is returned and logged
GenerateRead(p) ==
    /\ pc[p] = "gen_read"
    /\ readers' = readers \ {p}
    /\ IF shortCodeExists(shortCode[p])
       THEN /\ Goto(p, "gen_rlock")
            /\ UNCHANGED logged
       ELSE /\ Goto(p, "c_now")
            /\ \E l \in Answers : logged' = l
    /\ UNCHANGED <<urls, writer, clock, calls, req, validity, shortCode,
                   shortURL, click, existedAtCall, arrays, effected, wins,
                   sink>>

\* custom shortcode: shortCodeExists takes RLock
CheckRLock(p) ==
    /\ pc[p] = "chk_rlock"
    /\ CanRLock
    /\ readers' = readers \cup {p}
    /\ Goto(p, "chk_read")
    /\ UNCHANGED <<urls, writer, clock, calls, req, validity, shortCode,
                   shortURL, click, existedAtCall, logged, arrays, effected,
                   wins, sink>>

\* a collision check that stores the new record before it reports the
\* collision
CheckReadOverwrite(p) ==
    /\ pc[p] = "chk_read"
    /\ readers' = readers \ {p}
    /\ IF shortCodeExists(shortCode[p])
       THEN /\ urls' = MapStore(urls, shortCode[p],
                                NewShortURL(shortCode[p], req[p].URL, clock,
                                            validity[p]))
            /\ \E l \in Answers :
                  /\ logged' = l
                  /\ Return(p, "create", req[p].ShortCode, existedAtCall[p],
                            AfterLog(l, ErrExists), NoValue)
       ELSE /\ Goto(p, "c_now")
            /\ UNCHANGED <<urls, req, validity, shortCode, shortURL, click,
                           existedAtCall, logged>>
    /\ UNCHANGED <<writer, clock, calls, arrays, effected, wins, sink>>

\* custom shortcode: shortCodeExists reads the map and releases; a collision
\* is logged and returned
CheckRead(p) ==
    /\ pc[p] = "chk_read"
    /\ readers' = readers \ {p}
    /\ IF shortCodeExists(shortCode[p])
       THEN \E l \in Answers :
               /\ logged' = l
               /\ Return(p, "create", req[p].ShortCode, existedAtCall[p],
                         AfterLog(l, ErrExists), NoValue)
       ELSE /\ Goto(p, "c_now")
            /\ UNCHANGED <<req, validity, shortCode, shortURL, click,
                           existedAtCall, logged>>
    /\ UNCHANGED <<urls, writer, clock, calls, arrays, effected, wins, sink>>

\* now := time.Now() and the ShortURL literal
CreateEntry(p) ==
    /\ pc[p] = "c_now"
    /\ shortURL' = [shortURL EXCEPT ![p] =
          NewShortURL(shortCode[p], req[p].URL, clock, validity[p])]
    /\ Goto(p, "c_lock")
    /\ UNCHANGED <<urls, readers, writer, clock, calls, req, validity,
                   shortCode, click, existedAtCall, logged, arrays, effected,
                   wins, sink>>

\* s.mutex.Lock()
CreateLock(p) ==
    /\ pc[p] = "c_lock"
    /\ CanLock
    /\ writer' = p
    /\ Goto(p, "c_store")
    /\ UNCHANGED <<urls, readers, clock, calls, req, validity, shortCode,
                   shortURL, click, existedAtCall, logged, arrays, effected,
                   wins, sink>>

\* s.urls[shortCode] = shortURL; s.mutex.Unlock(); the Log call; return the
\* response
CreateStore(p) ==
    /\ pc[p] = "c_store"
    /\ urls' = MapStore(urls, shortCode[p], shortURL[p])
    /\ writer' = NoProc
    /\ \E l \in Answers :
          /\ logged' = l
          /\ Return(p, "create", req[p].ShortCode, existedAtCall[p],
                    AfterLog(l, Nil), NewResponse(shortURL[p]))
    /\ wins' = MapStore(wins, shortCode[p], WinsOf(shortCode[p]) + 1)
    /\ UNCHANGED <<readers, clock, calls, arrays, effected, sink>>

\* -------------------------------------------------- GetOriginalURL
\* the call and its first Log call
GetOriginalURL(p, code) ==
    /\ StartCall(p)
    /\ SetLocals(p, ZeroRequest, 0, code, ZeroShortURL, ZeroClick,
                 code \in DOMAIN urls)
    /\ Goto(p, "g_rlock")
    /\ \E l \in Answers : logged' = l
    /\ UNCHANGED <<urls, readers, writer, clock, arrays, effected, wins,
                   sink>>

\* s.mutex.RLock()
ResolveRLock(p) ==
    /\ pc[p] = "g_rlock"
    /\ CanRLock
    /\ readers' = readers \cup {p}
    /\ Goto(p, "g_read")
    /\ UNCHANGED <<urls, writer, clock, calls, req, validity, shortCode,
                   shortURL, click, existedAtCall, logged, arrays, effected,
                   wins, sink>>

\* shortURL, exists := s.urls[shortCode]; s.mutex.RUnlock(); if !exists ...
ResolveRead(p) ==
    /\ pc[p] = "g_read"
    /\ readers' = readers \ {p}
    /\ IF shortCodeExists(shortCode[p])
       THEN /\ shortURL' = [shortURL EXCEPT ![p] = urls[shortCode[p]]]
            /\ Goto(p, "g_now")
            /\ UNCHANGED <<req, validity, shortCode, click, existedAtCall,
                           logged>>
       ELSE \E l \in Answers :
               /\ logged' = l
               /\ Return(p, "resolve", shortCode[p], existedAtCall[p],
                         AfterLog(l, ErrNotFound), NoValue)
    /\ UNCHANGED <<urls, writer, clock, calls, arrays, effected, wins, sink>>

\* a resolve that counts the visit it serves
ResolveExpiryCounting(p) ==
    /\ pc[p] = "g_now"
    /\ IF After(clock, shortURL[p].ExpiresAt)
       THEN /\ \E l \in Answers :
                  /\ logged' = l
                  /\ Return(p, "resolve", shortCode[p], existedAtCall[p],
                            AfterLog(l, ErrExpired), NoValue)
            /\ UNCHANGED urls
       ELSE /\ urls' = [urls EXCEPT ![shortCode[p]] = IncClickCount(@)]
            /\ Return(p, "resolve", shortCode[p], existedAtCall[p],
                      Nil, shortURL[p].OriginalURL)
            /\ UNCHANGED logged
    /\ UNCHANGED <<readers, writer, clock, calls, arrays, effected, wins,
                   sink>>

\* a resolve that removes the record it finds expired
ResolveExpiryPurge(p) ==
    /\ pc[p] = "g_now"
    /\ IF After(clock, shortURL[p].ExpiresAt)
       THEN /\ urls' = [c \in DOMAIN urls \ {shortCode[p]} |-> urls[c]]
            /\ \E l \in Answers :
                  /\ logged' = l
                  /\ Return(p, "resolve", shortCode[p], existedAtCall[p],
                            AfterLog(l, ErrExpired), NoValue)
       ELSE /\ Return(p, "resolve", shortCode[p], existedAtCall[p],
                      Nil, shortURL[p].OriginalURL)
            /\ UNCHANGED <<urls, logged>>
    /\ UNCHANGED <<readers, writer, clock, calls, arrays, effected, wins,
                   sink>>

\* if time.Now().After(shortURL.ExpiresAt) ... return shortURL.OriginalURL
ResolveExpiry(p) ==
    /\ pc[p] = "g_now"
    /\ IF After(clock, shortURL[p].ExpiresAt)
       THEN \E l \in Answers :
               /\ logged' = l
               /\ Return(p, "resolve", shortCode[p], existedAtCall[p],
                         AfterLog(l, ErrExpired), NoValue)
       ELSE /\ Return(p, "resolve", shortCode[p], existedAtCall[p],
                      Nil, shortURL[p].OriginalURL)
            /\ UNCHANGED logged
    /\ UNCHANGED <<urls, readers, writer, clock, calls, arrays, effected,
                   wins, sink>>

\* ------------------------------------------------------ RecordClick
\* the call and its first Log call
RecordClick(p, code, source, location) ==
    /\ StartCall(p)
    /\ SetLocals(p, ZeroRequest, 0, code, ZeroShortURL,
                 [Timestamp |-> 0, Source |-> source, Location |-> location],
                 code \in DOMAIN urls)
    /\ Goto(p, "r_lock")
    /\ \E l \in Answers : logged' = l
    /\ UNCHANGED <<urls, readers, writer, clock, arrays, effected, wins,
                   sink>>

\* s.mutex.Lock(); defer s.mutex.Unlock()
ClickLock(p) ==
    /\ pc[p] = "r_lock"
    /\ CanLock
    /\ writer' = p
    /\ Goto(p, "r_inc")
    /\ UNCHANGED <<urls, readers, clock, calls, req, validity, shortCode,
                   shortURL, click, existedAtCall, logged, arrays, effected,
                   wins, sink>>

\* a lookup that returns "shortcode not found" without the Unlock
ClickCountKeepsLock(p) ==
    /\ pc[p] = "r_inc"
    /\ IF shortCodeExists(shortCode[p])
       THEN /\ click' = [click EXCEPT ![p].Timestamp = clock]
            /\ urls' = [urls EXCEPT ![shortCode[p]] = IncClickCount(@)]
            /\ Goto(p, "r_app")
            /\ UNCHANGED <<req, validity, shortCode, shortURL, existedAtCall>>
       ELSE /\ Return(p, "recordClick", shortCode[p], existedAtCall[p],
                      ErrNotFound, NoValue)
            /\ UNCHANGED urls
    /\ UNCHANGED <<readers, writer, clock, calls, logged, arrays, effected,
                   wins, sink>>

\* the lookup, the Click literal and shortURL.ClickCount++ ; the deferred
\* Unlock runs on the not-found return
ClickCount(p) ==
    /\ pc[p] = "r_inc"
    /\ IF shortCodeExists(shortCode[p])
       THEN /\ click' = [click EXCEPT ![p].Timestamp = clock]
            /\ urls' = [urls EXCEPT ![shortCode[p]] = IncClickCount(@)]
            /\ Goto(p, "r_app")
            /\ UNCHANGED <<writer, req, validity, shortCode, shortURL,
                           existedAtCall>>
       ELSE /\ writer' = NoProc
            /\ Return(p, "recordClick", shortCode[p], existedAtCall[p],
                      ErrNotFound, NoValue)
            /\ UNCHANGED urls
    /\ UNCHANGED <<readers, clock, calls, logged, arrays, effected, wins,
                   sink>>

\* the append
ClickAppend(p) ==
    /\ pc[p] = "r_app"
    /\ urls' = [urls EXCEPT ![shortCode[p]] = AppendClick(@, arrays)]
    /\ arrays' = AppendCells(arrays, urls[shortCode[p]].ClickHistory, click[p])
    /\ effected' = MapStore(effected, shortCode[p],
                            Append(EffectedOf(shortCode[p]), click[p]))
    /\ Goto(p, "r_log")
    /\ UNCHANGED <<readers, writer, clock, calls, req, validity, shortCode,
                   shortURL, click, existedAtCall, logged, wins, sink>>

\* the Log call "Click recorded", made with the mutex held; return nil and
\* the deferred Unlock
ClickLog(p) ==
    /\ pc[p] = "r_log"
    /\ writer' = NoProc
    /\ \E l \in Answers :
          /\ logged' = l
          /\ Return(p, "recordClick", shortCode[p], existedAtCall[p],
                    AfterLog(l, Nil), NoValue)
    /\ UNCHANGED <<urls, readers, clock, calls, arrays, effected, wins, sink>>

\* --------------------------------------------------------- GetStats
\* the call and its first Log call
GetStats(p, code) ==
    /\ StartCall(p)
    /\ SetLocals(p, ZeroRequest, 0, code, ZeroShortURL, ZeroClick,
                 code \in DOMAIN urls)
    /\ Goto(p, "s_rlock")
    /\ \E l \in Answers : logged' = l
    /\ UNCHANGED <<urls, readers, writer, clock, arrays, effected, wins,
                   sink>>

\* s.mutex.RLock(); defer s.mutex.RUnlock()
StatsRLock(p) ==
    /\ pc[p] = "s_rlock"
    /\ CanRLock
    /\ readers' = readers \cup {p}
    /\ Goto(p, "s_read")
    /\ UNCHANGED <<urls, writer, clock, calls, req, validity, shortCode,
                   shortURL, click, existedAtCall, logged, arrays, effected,
                   wins, sink>>

\* the lookup; the ShortURLStats literal and the deferred RUnlock when the
\* code is there
StatsRead(p) ==
    /\ pc[p] = "s_read"
    /\ IF shortCodeExists(shortCode[p])
       THEN /\ readers' = readers \ {p}
            /\ Return(p, "stats", shortCode[p], existedAtCall[p], Nil,
                      NewStats(urls[shortCode[p]]))
       ELSE /\ Goto(p, "s_log")
            /\ UNCHANGED <<readers, req, validity, shortCode, shortURL, click,
                           existedAtCall>>
    /\ UNCHANGED <<urls, writer, clock, calls, logged, arrays, effected, wins,
                   sink>>

\* the Log call "Shortcode not found for stats", made with the mutex held for
\* reading; return the error and the deferred RUnlock
StatsLog(p) ==
    /\ pc[p] = "s_log"
    /\ readers' = readers \ {p}
    /\ \E l \in Answers :
          /\ logged' = l
          /\ Return(p, "stats", shortCode[p], existedAtCall[p],
                    AfterLog(l, ErrNotFound), NoValue)
    /\ UNCHANGED <<urls, writer, clock, calls, arrays, effected, wins, sink>>

\* ------------------------------------------------------ RedirectURL
\* GET /{shortCode}: the handler up to the RLock call of GetOriginalURL; for
\* the paths of the API endpoints it returns at once, nothing is written
\* and net/http answers 200
RedirectURL(p, code, referer) ==
    /\ StartCall(p)
    /\ \E l \in Answers : logged' = l
    /\ IF code \in ApiPaths
       THEN /\ answer' = [status |-> 200, location |-> EmptyString,
                          code |-> code]
            /\ UNCHANGED <<pc, request, req, validity, shortCode, shortURL,
                           click, existedAtCall>>
       ELSE /\ request' = [request EXCEPT ![p] =
                             [shortCode |-> code, referer |-> referer,
                              originalURL |-> EmptyString]]
            /\ SetLocals(p, ZeroRequest, 0, code, ZeroShortURL, ZeroClick,
                         code \in DOMAIN urls)
            /\ pc' = [pc EXCEPT ![p] = "g_rlock"]
            /\ UNCHANGED answer
    /\ UNCHANGED <<urls, readers, writer, clock, ret, arrays, effected, wins,
                   sink>>

\* ------------------------------------------------------ environment
\* the wall clock advances
Tick ==
    /\ \E d \in TickSteps :
          /\ clock + d <= MaxTime
          /\ clock' = clock + d
    /\ UNCHANGED <<urls, readers, writer, calls, pc, req, validity, shortCode,
                   shortURL, click, existedAtCall, ret, logged, arrays,
                   effected, wins, sink, request, answer>>

\* a RecordClick call from its lookup to its append, on record and memory
Clicked(st, c) ==
    [rec |-> AppendClick(IncClickCount(st.rec), st.mem),
     mem |-> AppendCells(st.mem, st.rec.ClickHistory, c)]

\* a click through a referrer at time 0
RefClick ==
    [Timestamp |-> 0, Source |-> SourceRef, Location |-> LocationUnknown]

\* the record of "abcd" and the memory after a create with validity 60 and
\* three clicks, all at time 0: the history fills three cells of an array
\* of four
ThreeClicks ==
    Clicked(Clicked(Clicked([rec |-> NewShortURL(CodeAbcd, UrlExample, 0, 60),
                             mem |-> <<>>],
                            RefClick), RefClick), RefClick)

\* the service after that create and those three clicks have returned;
\* calls counts the calls made from here on
SnapshotInit ==
    /\ urls = MapStore(<<>>, CodeAbcd, ThreeClicks.rec)
    /\ arrays = ThreeClicks.mem
    /\ effected = MapStore(<<>>, CodeAbcd, <<RefClick, RefClick, RefClick>>)
    /\ wins = MapStore(<<>>, CodeAbcd, 1)
    /\ ret = [op |-> "recordClick", code |-> CodeAbcd, existed |-> TRUE,
              err |-> Nil, val |-> NoValue]
    /\ readers = {}
    /\ writer = NoProc
    /\ clock = 0
    /\ calls = 0
    /\ pc = [p \in Procs |-> "idle"]
    /\ req = [p \in Procs |-> ZeroRequest]
    /\ validity = [p \in Procs |-> 0]
    /\ shortCode = [p \in Procs |-> EmptyString]
    /\ shortURL = [p \in Procs |-> ZeroShortURL]
    /\ click = [p \in Procs |-> ZeroClick]
    /\ existedAtCall = [p \in Procs |-> FALSE]
    /\ logged = Nil
    /\ sink = "up"
    /\ request = [p \in Procs |-> NoRequest]
    /\ answer = NoAnswer

\* codes a lookup may ask for
LookupCodes == {CodeAbcd}

\* codes GetStats may be asked for: "abc" is never stored
StatsCodes == LookupCodes \cup {CodeAbc}

\* the (code, source) pairs of the recordClick calls callers make
ClickInputs == {<<CodeAbcd, SourceDirect>>, <<CodeAbcd, SourceRef>>}

Step(p) ==
    \/ \E r \in Requests : CreateShortURL(p, r)
    \/ GenerateRLock(p)
    \/ GenerateRead(p)
    \/ CheckRLock(p)
    \/ CheckRead(p)
    \/ CreateEntry(p)
    \/ CreateLock(p)
    \/ CreateStore(p)
    \/ \E code \in LookupCodes : GetOriginalURL(p, code)
    \/ ResolveRLock(p)
    \/ ResolveRead(p)
    \/ ResolveExpiry(p)
    \/ \E c \in ClickInputs : RecordClick(p, c[1], c[2], LocationUnknown)
    \/ ClickLock(p)
    \/ ClickCount(p)
    \/ ClickAppend(p)
    \/ ClickLog(p)
    \/ \E code \in StatsCodes : GetStats(p, code)
    \/ StatsRLock(p)
    \/ StatsRead(p)
    \/ StatsLog(p)

Next ==
    \/ \E p \in Procs : Step(p)
    \/ Tick

Spec == Init /\ [][Next]_vars

\* the (path, Referer header) pairs of the GET /{shortCode} requests; the
\* mux routes /health and /shorturls to other handlers
RedirectInputs == {<<CodeAbcd, EmptyString>>, <<CodeAbcd, SourceRef>>}

\* the service behind its HTTP handlers: POST /shorturls calls
\* CreateShortURL, GET /shorturls/{code} calls GetStats, GET /{code} runs
\* RedirectURL, which alone calls GetOriginalURL and RecordClick
HttpStep(p) ==
    \/ \E r \in Requests : CreateShortURL(p, r)
    \/ GenerateRLock(p)
    \/ GenerateRead(p)
    \/ CheckRLock(p)
    \/ CheckRead(p)
    \/ CreateEntry(p)
    \/ CreateLock(p)
    \/ CreateStore(p)
    \/ \E i \in RedirectInputs : RedirectURL(p, i[1], i[2])
    \/ ResolveRLock(p)
    \/ ResolveRead(p)
    \/ ResolveExpiry(p)
    \/ ClickLock(p)
    \/ ClickCount(p)
    \/ ClickAppend(p)
    \/ ClickLog(p)
    \/ \E code \in StatsCodes : GetStats(p, code)
    \/ StatsRLock(p)
    \/ StatsRead(p)
    \/ StatsLog(p)

HttpNext ==
    \/ \E p \in Procs : HttpStep(p)
    \/ Tick

HttpSpec == Init /\ [][HttpNext]_vars

\* the Go scheduler runs every goroutine that can take a step
FairSpec == Spec /\ \A p \in Procs : WF_vars(Step(p))

\* sync.RWMutex: a caller blocked in Lock holds back the RLock calls that
\* come after it
WriterWaits == \E q \in Procs : pc[q] \in {"c_lock", "r_lock"}

\* RLock as sync.RWMutex grants it, behind the writers that wait
RLockBehindWriters(p) ==
    /\ ~WriterWaits
    /\ \/ GenerateRLock(p)
       \/ CheckRLock(p)
       \/ ResolveRLock(p)
       \/ StatsRLock(p)

\* a caller takes the mutex, for reading or for writing
Acquire(p) ==
    \/ RLockBehindWriters(p)
    \/ CreateLock(p)
    \/ ClickLock(p)

\* the create requests of the callers that contend for the mutex: one with
\* a custom code, one that has its code generated
LockRequests ==
    {Request(UrlExample, 60, CodeAbcd), Request(UrlExample, 60, EmptyString)}

\* the four operations on one code, as far as the mutex is concerned: the
\* clock plays no part
LockStep(p) ==
    \/ \E r \in LockRequests : CreateShortURL(p, r)
    \/ RLockBehindWriters(p)
    \/ GenerateRead(p)
    \/ CheckRead(p)
    \/ CreateEntry(p)
    \/ CreateLock(p)
    \/ CreateStore(p)
    \/ \E code \in LookupCodes : GetOriginalURL(p, code)
    \/ ResolveRead(p)
    \/ ResolveExpiry(p)
    \/ \E code \in LookupCodes :
          RecordClick(p, code, SourceDirect, LocationUnknown)
    \/ ClickLock(p)
    \/ ClickCount(p)
    \/ ClickAppend(p)
    \/ ClickLog(p)
    \/ \E code \in LookupCodes : GetStats(p, code)
    \/ StatsRead(p)
    \/ StatsLog(p)

LockNext == \E p \in Procs : LockStep(p)

\* the Go scheduler runs every goroutine that can take a step, and
\* sync.RWMutex lets no waiter starve: Unlock wakes the blocked readers
\* before the next writer, and the waiters of a semaphore are served in turn
LockSpec ==
    /\ Init /\ [][LockNext]_vars
    /\ \A p \in Procs : WF_vars(LockStep(p)) /\ SF_vars(Acquire(p))

\* the program with the log server down
LogSpec == LogInit /\ [][Next]_vars

\* the program from the state with three clicks recorded
SnapshotSpec == SnapshotInit /\ [][Next]_vars

\* ================================================================ claims
URLErrors == {ErrInvalidURL(ErrEmptyURL), ErrInvalidURL(ErrURLFormat)}

HasScheme(s) == HasPrefix(s, HttpPrefix) \/ HasPrefix(s, HttpsPrefix)

IsPrefix(s, t) == Len(s) <= Len(t) /\ SubSeq(t, 1, Len(s)) = s

\* the custom shortcodes callers ask for
CustomCodes == {r.ShortCode : r \in Requests} \ {EmptyString}

\* the codes generateShortCode can draw
GeneratedCodes == {NewShortCode(bytes) : bytes \in RandBytes}

\* every candidate code of generateShortCode is in the map
Exhausted == GeneratedCodes \subseteq DOMAIN urls

CreatePcs == {"gen_rlock", "gen_read", "chk_rlock", "chk_read", "c_now",
              "c_lock", "c_store"}

\* C1: of the create calls with one custom shortcode at most one returns
\* nil; the others are refused.
OneCustomCreateWins == \A c \in CustomCodes : WinsOf(c) <= 1

\* C2: a create without a custom code stores its record under a code that
\* is absent from the map at the moment of the insert, so no generated code
\* is handed out twice.
GeneratedCodeFresh ==
    [][\A p \in Procs :
          ( /\ pc[p] = "c_store" /\ pc'[p] = "idle"
            /\ req[p].ShortCode = EmptyString )
          => /\ shortCode[p] \notin DOMAIN urls
             /\ WinsOf(shortCode[p]) = 0]_vars

\* C3 as stated: a create with a custom shortcode that is in the map when
\* the call is made returns "shortcode already exists".
ExistingCustomCodeCollides ==
    (ret.op = "create" /\ ret.code # EmptyString /\ ret.existed)
    => ret.err = ErrExists

\* C3 as amended: such a call never reaches the insert, and it returns the
\* URL error when the URL is invalid, "shortcode already exists" otherwise.
ExistingCustomCodeRejected ==
    /\ \A p \in Procs :
          ( /\ pc[p] \in CreatePcs
            /\ req[p].ShortCode # EmptyString /\ existedAtCall[p] )
          => pc[p] \in {"chk_rlock", "chk_read"}
    /\ (ret.op = "create" /\ ret.code # EmptyString /\ ret.existed)
       => ret.err \in URLErrors \cup {ErrExists}
    /\ ( /\ ret.op = "create" /\ ret.code # EmptyString /\ ret.existed
         /\ ret.err \in URLErrors )
       => \E r \in Requests : /\ r.ShortCode = ret.code
                              /\ ret.err = ErrInvalidURL(validateURL(r.URL))

\* a create asking for a code that holds a clicked record was refused, and
\* the record is as it was
ExistingCustomCodeRejectedWitness ==
    /\ ret.op = "create" /\ ret.code = CodeAbcd /\ ret.existed
    /\ ret.err = ErrExists
    /\ urls[CodeAbcd].ClickCount = 1
    /\ urls[CodeAbcd].ClickHistory.Len = 1

\* C4: ShortCode, OriginalURL, CreatedAt and ExpiresAt of a stored record
\* never change.
WriteOnceFields ==
    [][\A c \in DOMAIN urls :
          /\ c \in DOMAIN urls'
          /\ urls'[c].ShortCode = urls[c].ShortCode
          /\ urls'[c].OriginalURL = urls[c].OriginalURL
          /\ urls'[c].CreatedAt = urls[c].CreatedAt
          /\ urls'[c].ExpiresAt = urls[c].ExpiresAt]_vars

\* C5: whenever GetStats can read a record, the stats it returns count and
\* list exactly the recordClick calls on the code that have returned nil, in
\* the order they took effect.
StatsCountClicks ==
    \A c \in DOMAIN urls :
       writer = NoProc =>
          /\ NewStats(urls[c]).TotalClicks = Len(EffectedOf(c))
          /\ View(arrays, NewStats(urls[c]).Clicks) = EffectedOf(c)

\* C6: ClickCount equals the length of ClickHistory in every record that a
\* reader can see and in every value GetStats returns.
CountMatchesHistory ==
    /\ (ret.op = "stats" /\ ret.err = Nil)
       => ret.val.TotalClicks = ret.val.Clicks.Len
    /\ writer = NoProc =>
          \A c \in DOMAIN urls :
             urls[c].ClickCount = urls[c].ClickHistory.Len

\* GetStats has returned a recorded click and its count
CountMatchesHistoryWitness ==
    /\ ret.op = "stats" /\ ret.err = Nil
    /\ ret.val.TotalClicks = 1
    /\ ret.val.Clicks.Len = 1
    /\ Len(EffectedOf(ret.code)) = 1

\* C7: the ClickCount of a code never decreases and its ClickHistory only
\* grows at the end.
HistoryAppendOnly ==
    [][\A c \in DOMAIN urls :
          /\ c \in DOMAIN urls'
          /\ urls'[c].ClickCount >= urls[c].ClickCount
          /\ IsPrefix(View(arrays, urls[c].ClickHistory),
                      View(arrays', urls'[c].ClickHistory))]_vars

\* C8: GetOriginalURL returns "shortcode not found" when the code is absent
\* at the lookup, "shortcode expired" exactly when the clock is past the
\* record's ExpiresAt, and the record's OriginalURL otherwise.
ResolveOutcome ==
    [][\A p \in Procs :
          /\ (pc[p] = "g_read" /\ pc'[p] # "g_read") =>
                IF shortCode[p] \in DOMAIN urls
                THEN pc'[p] = "g_now" /\ shortURL'[p] = urls[shortCode[p]]
                ELSE /\ pc'[p] = "idle"
                     /\ ret'.op = "resolve" /\ ret'.code = shortCode[p]
                     /\ ret'.err = ErrNotFound
          /\ (pc[p] = "g_now" /\ pc'[p] # "g_now") =>
                /\ pc'[p] = "idle"
                /\ ret'.op = "resolve" /\ ret'.code = shortCode[p]
                /\ IF clock > shortURL[p].ExpiresAt
                   THEN ret'.err = ErrExpired
                   ELSE /\ ret'.err = Nil
                        /\ ret'.val = shortURL[p].OriginalURL]_vars

\* a code created with validity 60 has just been reported expired, 61
\* minutes after its creation
ResolveOutcomeWitness ==
    /\ ret.op = "resolve" /\ ret.err = ErrExpired
    /\ ret.code \in DOMAIN urls
    /\ urls[ret.code].ExpiresAt = urls[ret.code].CreatedAt + 60
    /\ clock = urls[ret.code].CreatedAt + 61

\* C9: the URL GetOriginalURL returns carries the http:// or https://
\* prefix: it is the normalized form of what create was given.
ResolveReturnsNormalized ==
    (ret.op = "resolve" /\ ret.err = Nil) => HasScheme(ret.val)

\* C10: once every candidate code is taken, a create that is generating a
\* code gives up and returns.
ExhaustedGenerationReturns ==
    \A p \in Procs :
       (pc[p] \in {"gen_rlock", "gen_read"} /\ Exhausted) ~> (pc[p] = "idle")

\* C11: a record is built with ExpiresAt = CreatedAt + validity minutes, 30
\* standing in for a validity that is absent (0) or negative, and ExpiresAt
\* is strictly after CreatedAt, in the record as built and as stored.
ExpiryAfterCreation ==
    /\ \A p \in Procs :
          pc[p] \in {"c_lock", "c_store"} =>
             /\ shortURL[p].ExpiresAt =
                   shortURL[p].CreatedAt
                   + (IF req[p].Validity <= 0 THEN 30 ELSE req[p].Validity)
             /\ shortURL[p].ExpiresAt > shortURL[p].CreatedAt
    /\ \A c \in DOMAIN urls : urls[c].ExpiresAt > urls[c].CreatedAt

\* C12: RecordClick looks only at whether the code is in the map, never at
\* ExpiresAt: on a present code, expired or not, it increments ClickCount,
\* appends the click and returns nil; only on an absent code it returns
\* "shortcode not found", and then it changes nothing.
ClickIgnoresExpiry ==
    [][\A p \in Procs :
          /\ (pc[p] = "r_inc" /\ pc'[p] # "r_inc") =>
                IF shortCode[p] \in DOMAIN urls
                THEN /\ pc'[p] = "r_app"
                     /\ urls'[shortCode[p]].ClickCount =
                           urls[shortCode[p]].ClickCount + 1
                ELSE /\ pc'[p] = "idle"
                     /\ ret'.op = "recordClick" /\ ret'.code = shortCode[p]
                     /\ ret'.err = ErrNotFound
                     /\ urls' = urls /\ arrays' = arrays
          /\ (pc[p] = "r_app" /\ pc'[p] # "r_app") =>
                /\ pc'[p] = "r_log"
                /\ View(arrays', urls'[shortCode[p]].ClickHistory) =
                      Append(View(arrays, urls[shortCode[p]].ClickHistory),
                             click[p])
          /\ (pc[p] = "r_log" /\ pc'[p] # "r_log") =>
                /\ pc'[p] = "idle"
                /\ ret'.op = "recordClick" /\ ret'.code = shortCode[p]
                /\ ret'.err = Nil
                /\ urls' = urls /\ arrays' = arrays]_vars

\* a click has been recorded on a code that had expired: the last click of
\* the history is later than ExpiresAt, and it is counted
ClickIgnoresExpiryWitness ==
    /\ ret.op = "recordClick" /\ ret.err = Nil
    /\ ret.code \in DOMAIN urls
    /\ urls[ret.code].ClickCount = 1
    /\ urls[ret.code].ClickHistory.Len = 1
    /\ View(arrays, urls[ret.code].ClickHistory)[1].Timestamp
          > urls[ret.code].ExpiresAt

\* C13: GetStats returns "shortcode not found" exactly when the code is
\* absent at its lookup and never looks at ExpiresAt: for a present code,
\* expired or not, it returns the record's ClickCount, CreatedAt, ExpiresAt
\* and ClickHistory.
StatsIgnoresExpiry ==
    [][\A p \in Procs :
          /\ (pc[p] = "s_read" /\ pc'[p] # "s_read") =>
                IF shortCode[p] \in DOMAIN urls
                THEN /\ pc'[p] = "idle"
                     /\ ret'.op = "stats" /\ ret'.code = shortCode[p]
                     /\ ret'.err = Nil
                     /\ ret'.val.TotalClicks = urls[shortCode[p]].ClickCount
                     /\ ret'.val.CreatedAt = urls[shortCode[p]].CreatedAt
                     /\ ret'.val.ExpiresAt = urls[shortCode[p]].ExpiresAt
                     /\ View(arrays', ret'.val.Clicks) =
                           View(arrays, urls[shortCode[p]].ClickHistory)
                ELSE pc'[p] = "s_log"
          /\ (pc[p] = "s_log" /\ pc'[p] # "s_log") =>
                /\ pc'[p] = "idle"
                /\ ret'.op = "stats" /\ ret'.code = shortCode[p]
                /\ ret'.err = ErrNotFound
                /\ shortCode[p] \notin DOMAIN urls]_vars

\* GetStats has returned the statistics of a code after its expiry, among
\* them a click recorded before it
StatsIgnoresExpiryWitness ==
    /\ ret.op = "stats" /\ ret.err = Nil
    /\ clock > ret.val.ExpiresAt
    /\ ret.val.TotalClicks = 1
    /\ View(arrays, ret.val.Clicks)[1].Timestamp < ret.val.ExpiresAt

\* the positions of GetOriginalURL and GetStats
ReadPcs == {"g_rlock", "g_read", "g_now", "s_rlock", "s_read", "s_log"}

\* C14: no step of GetOriginalURL or GetStats, from the call to the return,
\* successful or not, changes the map, a record or a click history: an
\* expired record stays in place and resolving records no click.
ReadsChangeNothing ==
    [][\A p \in Procs :
          (pc'[p] # pc[p] /\ (pc[p] \in ReadPcs \/ pc'[p] \in ReadPcs))
          => (urls' = urls /\ arrays' = arrays)]_vars

\* GetOriginalURL has found the code expired; the record is in place with
\* the one click recorded before
ReadsChangeNothingWitness ==
    /\ ret.op = "resolve" /\ ret.err = ErrExpired
    /\ ret.code \in DOMAIN urls
    /\ urls[ret.code].ClickCount = 1
    /\ View(arrays, urls[ret.code].ClickHistory) = EffectedOf(ret.code)
    /\ Len(EffectedOf(ret.code)) = 1

\* C15: a create that returns an error (invalid or empty URL, custom code of
\* bad length or with a character that is not alphanumeric, custom code
\* already in the map) has inserted nothing: the step that returns the error
\* and the steps of the collision check before it leave the map as it was,
\* and the one step of create that writes the map returns nil.
FailedCreateInsertsNothing ==
    [][/\ ( /\ ret'.op = "create" /\ ret'.err # Nil
            /\ \/ (calls' # calls /\ pc' = pc)
               \/ \E p \in Procs : pc[p] \in CreatePcs /\ pc'[p] = "idle" )
          => (urls' = urls /\ arrays' = arrays)
       /\ \A p \in Procs :
             /\ (pc[p] \in {"chk_rlock", "chk_read"} /\ pc'[p] # pc[p])
                => urls' = urls
             /\ (pc[p] \in CreatePcs /\ pc'[p] # pc[p] /\ urls' # urls)
                => /\ pc[p] = "c_store" /\ pc'[p] = "idle"
                   /\ ret'.op = "create" /\ ret'.err = Nil]_vars

\* a create with the three-character code "abc" has failed on the length;
\* the map holds what it held, the record of "abcd" and its click
FailedCreateInsertsNothingWitness ==
    /\ ret.op = "create" /\ ret.code = CodeAbc
    /\ ret.err = ErrInvalidShortCode(ErrLength)
    /\ DOMAIN urls = {CodeAbcd}
    /\ urls[CodeAbcd].ClickCount = 1

\* C16: validateShortCode accepts a custom code exactly when it has 4 to 20
\* characters, each in [a-zA-Z0-9]; the length is looked at first: a code of
\* fewer than 4 or more than 20 characters is refused for its length
\* whatever its characters, and a code of 4 to 20 characters with another
\* character is refused as not alphanumeric.  Seen on the create calls that
\* got past the URL validation.
ShortCodeRule ==
    (ret.op = "create" /\ ret.code # EmptyString /\ ret.err \notin URLErrors)
    => IF Len(ret.code) < 4 \/ Len(ret.code) > 20
       THEN ret.err = ErrInvalidShortCode(ErrLength)
       ELSE IF \E i \in 1..Len(ret.code) : ~IsAlnum(ret.code[i])
       THEN ret.err = ErrInvalidShortCode(ErrAlnum)
       ELSE ret.err \in {Nil, ErrExists}

\* C17: no step removes a code from the map, whatever the clock says, so a
\* lookup (resolve, recordClick, stats) that returns "shortcode not found"
\* names a code that no create has ever stored.
RecordsNeverDeleted ==
    [][/\ DOMAIN urls \subseteq DOMAIN urls'
       /\ (ret'.op \in {"resolve", "recordClick", "stats"}
           /\ ret'.err = ErrNotFound)
          => /\ ret'.code \notin DOMAIN wins'
             /\ ret'.code \notin DOMAIN urls']_vars

\* GetOriginalURL has found expired the record of a create that asked for
\* no validity, a full hour after its 30 minutes ran out; the record is
\* still in the map
RecordsNeverDeletedWitness ==
    /\ ret.op = "resolve" /\ ret.err = ErrExpired
    /\ WinsOf(ret.code) = 1
    /\ ret.code \in DOMAIN urls
    /\ urls[ret.code].ExpiresAt = urls[ret.code].CreatedAt + 30
    /\ clock >= urls[ret.code].CreatedAt + 60

\* C18: a Log call that fails changes nothing of the operation that made
\* it.  Seen on the steps that follow a failed POST: no call returns the
\* logger's error; a create refused by validation or by a collision returns
\* its own error and writes nothing; a create that stores returns nil and
\* its response, and the record is in the map; a resolve returns not found,
\* expired or the URL as the map and the clock say; a recordClick returns
\* nil after its click went in; a stats returns not found on the absent
\* code; and a call that logs midway goes on to its next position.
LogFailureSwallowed ==
    [][\A p \in Procs :
          (pc'[p] # pc[p] /\ logged' = ErrLog) =>
             /\ ret'.err # ErrLog
             /\ (pc[p] = "idle" /\ pc'[p] = "idle") =>
                   /\ ret'.op = "create" /\ urls' = urls
                   /\ \/ ret'.err \in URLErrors
                      \/ /\ ret'.code # EmptyString
                         /\ validateShortCode(ret'.code) # Nil
                         /\ ret'.err = ErrInvalidShortCode(
                                          validateShortCode(ret'.code))
             /\ pc[p] = "gen_read" =>
                   pc'[p] = IF shortCode[p] \in DOMAIN urls
                            THEN "gen_rlock" ELSE "c_now"
             /\ (pc[p] = "chk_read" /\ pc'[p] = "idle") =>
                   /\ shortCode[p] \in DOMAIN urls
                   /\ ret'.err = ErrExists /\ urls' = urls
             /\ pc[p] = "c_store" =>
                   /\ pc'[p] = "idle" /\ ret'.op = "create"
                   /\ ret'.err = Nil /\ ret'.val = NewResponse(shortURL[p])
                   /\ urls'[shortCode[p]] = shortURL[p]
             /\ pc[p] = "g_read" =>
                   IF shortCode[p] \in DOMAIN urls
                   THEN pc'[p] = "g_now"
                   ELSE pc'[p] = "idle" /\ ret'.err = ErrNotFound
             /\ pc[p] = "g_now" =>
                   /\ pc'[p] = "idle" /\ ret'.op = "resolve"
                   /\ IF clock > shortURL[p].ExpiresAt
                      THEN ret'.err = ErrExpired
                      ELSE /\ ret'.err = Nil
                           /\ ret'.val = shortURL[p].OriginalURL
             /\ pc[p] = "r_log" =>
                   /\ pc'[p] = "idle" /\ ret'.op = "recordClick"
                   /\ ret'.err = Nil /\ urls' = urls /\ arrays' = arrays
                   /\ View(arrays, urls[shortCode[p]].ClickHistory)
                         [urls[shortCode[p]].ClickHistory.Len] = click[p]
             /\ pc[p] = "s_log" =>
                   /\ pc'[p] = "idle" /\ ret'.op = "stats"
                   /\ ret'.err = ErrNotFound]_vars

\* the one call made so far is a create whose last Log call, "Short URL
\* created successfully", failed: it returned nil and its record is stored
LogFailureSwallowedWitness ==
    /\ logged = ErrLog
    /\ calls = 1 /\ \A p \in Procs : pc[p] = "idle"
    /\ ret.op = "create" /\ ret.err = Nil
    /\ ret.code = CodeAbcd /\ DOMAIN urls = {CodeAbcd}
    /\ ret.val = NewResponse(urls[CodeAbcd])

\* C19: no Log call is made while the mutex is held: a caller that is about
\* to make one, at "Click recorded" in RecordClick or at "Shortcode not
\* found for stats" in GetStats, holds the mutex neither for writing nor
\* for reading, so no other caller waits for the POST to come back.
NoLogUnderLock ==
    \A p \in Procs :
       pc[p] \in {"r_log", "s_log"} => (writer # p /\ p \notin readers)

\* C20: the value GetStats returned is not touched by the clicks recorded
\* after it: TotalClicks is an int copied into the returned struct, and the
\* elements its Clicks slice shows stay what they were through every later
\* step, the append of RecordClick into the same backing array included.
StatsIsSnapshot ==
    [][(ret.op = "stats" /\ ret.err = Nil /\ ret' = ret)
       => /\ View(arrays', ret'.val.Clicks) = View(arrays, ret.val.Clicks)
          /\ Len(View(arrays', ret'.val.Clicks)) = ret.val.TotalClicks]_vars

\* GetStats returned three clicks, then a direct click was appended into
\* the fourth cell of the same array: the record counts four, the returned
\* value still three
StatsIsSnapshotWitness ==
    /\ ret.op = "stats" /\ ret.err = Nil
    /\ ret.val.TotalClicks = 3 /\ ret.val.Clicks.Len = 3
    /\ urls[ret.code].ClickCount = 4
    /\ urls[ret.code].ClickHistory.Len = 4
    /\ urls[ret.code].ClickHistory.Array = ret.val.Clicks.Array
    /\ View(arrays, urls[ret.code].ClickHistory)[4].Source = SourceDirect

\* C21: in RedirectURL, RecordClick is called only once GetOriginalURL has
\* returned the URL for the code of the request.  A request whose
\* GetOriginalURL returns "shortcode not found" or "short URL has expired"
\* answers 404, and no step of it has written the map or a history.  A
\* request whose GetOriginalURL returns the URL goes through RecordClick
\* once: the code is found, the count goes up by one, one click with the
\* Referer header (or "direct" without one) as its source is appended, and
\* the answer is 301 to that URL.
RedirectRecordsOneClick ==
    [][\A p \in Procs :
          (request[p] # NoRequest /\ pc'[p] # pc[p]) =>
             /\ pc[p] \in {"g_rlock", "g_read", "g_now"} =>
                   /\ urls' = urls /\ arrays' = arrays
                   /\ pc'[p] \in {"g_read", "g_now", "r_lock", "idle"}
             /\ (pc[p] \in {"g_read", "g_now"} /\ pc'[p] = "idle") =>
                   /\ ret'.op = "resolve"
                   /\ ret'.code = request[p].shortCode
                   /\ ret'.err \in {ErrNotFound, ErrExpired}
                   /\ answer' = [status |-> 404, location |-> EmptyString,
                                 code |-> request[p].shortCode]
                   /\ request'[p] = NoRequest
             /\ pc'[p] = "r_lock" =>
                   /\ pc[p] = "g_now"
                   /\ ret'.op = "resolve" /\ ret'.err = Nil
                   /\ ret'.code = request[p].shortCode
                   /\ request'[p].originalURL = ret'.val
                   /\ shortCode'[p] = request[p].shortCode
                   /\ click'[p].Source =
                         IF request[p].referer = EmptyString
                         THEN SourceDirect ELSE request[p].referer
             /\ pc[p] = "r_lock" => pc'[p] = "r_inc" /\ urls' = urls
             /\ pc[p] = "r_inc" =>
                   /\ pc'[p] = "r_app"
                   /\ urls'[shortCode[p]].ClickCount =
                         urls[shortCode[p]].ClickCount + 1
             /\ pc[p] = "r_app" =>
                   /\ pc'[p] = "r_log"
                   /\ View(arrays', urls'[shortCode[p]].ClickHistory) =
                         Append(View(arrays, urls[shortCode[p]].ClickHistory),
                                click[p])
             /\ pc[p] = "r_log" =>
                   /\ pc'[p] = "idle"
                   /\ urls' = urls /\ arrays' = arrays
                   /\ ret'.op = "recordClick" /\ ret'.err = Nil
                   /\ answer' = [status |-> 301,
                                 location |-> request[p].originalURL,
                                 code |-> request[p].shortCode]
                   /\ request'[p] = NoRequest]_vars

\* after one create, one GET /abcd without a Referer header has been
\* answered 301: the record counts one click, from "direct"
RedirectRecordsOneClickWitness ==
    /\ calls = 2 /\ \A p \in Procs : pc[p] = "idle"
    /\ answer.status = 301 /\ answer.code = CodeAbcd
    /\ answer.location = urls[CodeAbcd].OriginalURL
    /\ urls[CodeAbcd].ClickCount = 1
    /\ View(arrays, urls[CodeAbcd].ClickHistory) =
          <<[Timestamp |-> clock, Source |-> SourceDirect,
             Location |-> LocationUnknown]>>

\* the positions where a caller waits for the mutex, and those where it
\* holds it for reading and for writing
WaitPcs == {"gen_rlock", "chk_rlock", "c_lock", "g_rlock", "r_lock",
            "s_rlock"}
ReadHeldPcs == {"gen_read", "chk_read", "g_read", "s_read", "s_log"}
WriteHeldPcs == {"c_store", "r_inc", "r_app", "r_log"}

\* C22: the mutex is held exactly by the callers between a Lock or RLock
\* and the matching unlock, so a caller that has returned, on the
\* not-found paths of RecordClick and GetStats too, holds nothing; a writer
\* holds it alone; and every caller waiting for the mutex comes to hold it.
LockAlwaysReleased ==
    /\ [](/\ writer # NoProc => readers = {}
          /\ \A p \in Procs :
                /\ p \in readers <=> pc[p] \in ReadHeldPcs
                /\ writer = p <=> pc[p] \in WriteHeldPcs)
    /\ \A p \in Procs :
          (pc[p] \in WaitPcs) ~> (p \in readers \/ writer = p)

\* RecordClick has returned "shortcode not found"; another caller now holds
\* the mutex for writing while a third party of the map, a caller at its
\* Lock or RLock call, waits for it
LockAlwaysReleasedWitness ==
    /\ ret.op = "recordClick" /\ ret.err = ErrNotFound
    /\ \E p, q \in Procs :
          /\ p # q
          /\ writer = p /\ pc[p] = "c_store"
          /\ pc[q] \in WaitPcs

====
